---- MODULE Spec2Model ----
(***************************************************************************)
(* The streaming transport and the two sessions of noid-js:                *)
(*   NoidWebSocket  (internal/websocket.ts)  one connection                *)
(*   VmCommand      (exec.ts)                streaming command session     *)
(*   VmConsole      (console.ts)             interactive console session   *)
(*                                                                         *)
(* Scheduling is Node's: every event handler and every caller call runs to *)
(* completion, and the continuation of an `await` whose promise has been   *)
(* resolved (a microtask) runs before the next event or call is taken.     *)
(* Strings are sequences of one-character strings, buffers are sequences   *)
(* of byte values.                                                         *)
(***************************************************************************)
EXTENDS Integers, Sequences, FiniteSets, TLC

VARIABLES
    conn,   \* the NoidWebSocket instances, in order of construction
    cmd,    \* the VmCommand object
    con,    \* the VmConsole object
    wire    \* the environment: what the server and the caller have done so far

vars == <<conn, cmd, con, wire>>

\* ------------------------------------------------------------------ bounds

\* NoidWebSocket instances constructed over a run (one per start() call).
MaxConns == 2
\* Frames the server delivers over a run, all connections together.
MaxRecv == 2
\* Chunks the caller writes to the console's stdin over a run.
MaxWrites == 2
\* close() calls that reach one NoidWebSocket.
MaxCloses == 2
MaxPings == 2
MaxResizes == 2
MaxPayload == 2

Conns == 1..MaxConns

\* ------------------------------------------------------------- constants.ts

Stdout == 1
Stderr == 2
Stdin == 3
Resize == 4

\* --------------------------------------------------------------- frames

\* A text frame the server may send, as JSON.parse and the `in` tests of the
\* command session see it: json is FALSE when JSON.parse throws (or yields a
\* value `in` throws on), keys are the own properties present, exit_code is
\* <<>> for null and <<n>> for the number n, timed_out is its truthiness.
Parsed(json, keys, exit_code, timed_out) ==
    [json |-> json, keys |-> keys, exit_code |-> exit_code, timed_out |-> timed_out]

NoText == Parsed(FALSE, {}, <<>>, FALSE)

ResultText(code) == Parsed(TRUE, {"exit_code", "timed_out", "truncated"}, code, FALSE)

\* Exit statuses the server reports in the model.
ExitCodes == {-1, 0, 1}

ServerTexts ==
    { ResultText(<<n>>) : n \in ExitCodes } \cup
    {
      Parsed(TRUE, {"exit_code", "timed_out", "truncated"}, <<>>, TRUE),
      Parsed(TRUE, {"exit_code", "timed_out", "truncated"}, <<1>>, TRUE),
      Parsed(TRUE, {"timed_out", "truncated"}, <<>>, TRUE),
      Parsed(TRUE, {"timed_out", "truncated"}, <<>>, FALSE),
      Parsed(TRUE, {"error"}, <<>>, FALSE),
      Parsed(TRUE, {}, <<>>, FALSE),
      NoText }

\* The request of a command session, as buildExecRequest serialises it.
NoRequest == [command |-> <<>>, tty |-> FALSE, env |-> <<>>]

\* A frame on the wire: (data, isBinary) of the transport's 'message' event.
BinaryFrame(bytes) == [isBinary |-> TRUE, bytes |-> bytes, text |-> NoText, request |-> NoRequest]
TextFrame(t) == [isBinary |-> FALSE, bytes |-> <<>>, text |-> t, request |-> NoRequest]
RequestFrame(r) == [isBinary |-> FALSE, bytes |-> <<>>, text |-> NoText, request |-> r]

\* --------------------------------------------------- node:stream PassThrough

NewStream == [data |-> <<>>, ended |-> FALSE, ends |-> 0, writeAfterEnd |-> FALSE]

\* write(chunk): the chunks reach the reader one by one, in order; a chunk of
\* no bytes is not handed on; after end() the stream raises
\* ERR_STREAM_WRITE_AFTER_END and drops the chunk.
Write(stream, chunk) ==
    IF stream.ended
    THEN [stream EXCEPT !.writeAfterEnd = TRUE]
    ELSE IF chunk = <<>> THEN stream
    ELSE [stream EXCEPT !.data = Append(@, chunk)]

\* The bytes a reader of the stream has been handed, chunk after chunk.
RECURSIVE Concat(_)
Concat(chunks) == IF chunks = <<>> THEN <<>> ELSE Head(chunks) \o Concat(Tail(chunks))

\* end(): a second call changes nothing for the reader; the calls are counted.
End(stream) == [stream EXCEPT !.ended = TRUE, !.ends = @ + 1]

\* ---------------------------------------------------------- promises, events

Unresolved == <<>>

\* resolve(value) of a promise: only the first call settles it.
Resolve(promise, value) == IF promise = Unresolved THEN <<value>> ELSE promise

Event(name, c, arg) == [ev |-> name, conn |-> c, arg |-> arg, thrown |-> FALSE]

\* emitter.emit(name, ...): the event is recorded with the connection whose
\* handler emitted it.
Emit(s, name, c, arg) == [s EXCEPT !.events = Append(@, Event(name, c, arg))]

\* emitter.emit('error', err): with no 'error' listener registered emit throws
\* the error instead of delivering it.
EmitError(s, c) ==
    [s EXCEPT !.events =
        Append(@, [Event("error", c, <<>>) EXCEPT !.thrown = ~s.errListener])]

\* ------------------------------------------------------------ NoidWebSocket

NoConn ==
    [ owner |-> "none",          \* the session that constructed it
      readyState |-> "NONE",     \* this.ws.readyState; NONE: this.ws undefined
      pingInterval |-> FALSE,    \* this.pingInterval is set
      timers |-> 0,              \* live setInterval timers
      connectPromise |-> "none", \* the promise connect() returned
      attempts |-> 0,            \* transports constructed by connect()
      sent |-> <<>>,             \* frames handed to the open transport
      closeFrames |-> 0,         \* ws.close(1000) calls
      recvd |-> 0,               \* 'message' events handled
      opened |-> FALSE,          \* the transport emitted 'open'
      errored |-> FALSE,         \* the transport emitted 'error'
      closeCalls |-> 0,          \* close() calls made on this object
      elapsed |-> FALSE,         \* injectEnvVars' timer has fired
      pings |-> 0,               \* ws.ping() calls
      pc |-> "none",             \* where the start() that built it stands
      onData |-> FALSE,          \* injectEnvVars' 'stdout' listener is registered
      timeout |-> FALSE,         \* injectEnvVars' timer is pending
      target |-> 0,              \* the connection onData was registered on
      marker |-> <<>>,           \* injectEnvVars' marker
      buf |-> <<>> ]             \* injectEnvVars' accumulated output

\* send without its readyState test.
send_Unguarded(cn, data) == [cn EXCEPT !.sent = Append(@, BinaryFrame(data))]

\* send(data) and sendText(data): handed to the transport only when it is OPEN.
send(cn, data) ==
    IF cn.readyState = "OPEN"
    THEN [cn EXCEPT !.sent = Append(@, BinaryFrame(data))]
    ELSE cn

sendText(cn, request) ==
    IF cn.readyState = "OPEN"
    THEN [cn EXCEPT !.sent = Append(@, RequestFrame(request))]
    ELSE cn

startKeepalive(cn) == [cn EXCEPT !.pingInterval = TRUE, !.timers = @ + 1]

stopKeepalive(cn) ==
    IF cn.pingInterval
    THEN [cn EXCEPT !.pingInterval = FALSE, !.timers = @ - 1]
    ELSE cn

\* The callback of the keepalive timer: ping only when the transport is OPEN.
onPingInterval(cn) ==
    IF cn.readyState = "OPEN" THEN [cn EXCEPT !.pings = @ + 1] ELSE cn

\* close without its readyState test.
close_Unguarded(cn) ==
    [stopKeepalive(cn) EXCEPT !.readyState = "CLOSING", !.closeFrames = @ + 1]

\* close(): stops the keepalive; starts the closing handshake only when OPEN.
close(cn) ==
    LET stopped == stopKeepalive(cn) IN
    IF cn.readyState = "OPEN"
    THEN [stopped EXCEPT !.readyState = "CLOSING", !.closeFrames = @ + 1]
    ELSE stopped

\* connect(): constructs the transport and returns a pending promise.
connect(cn) ==
    [cn EXCEPT !.readyState = "CONNECTING", !.connectPromise = "pending",
               !.attempts = @ + 1]

\* ---------------------------------------------------------------- VmCommand

CommandInputs ==
    { [command |-> <<"ls">>, tty |-> FALSE, env |-> <<>>],
      [command |-> <<"sh", "-c">>, tty |-> TRUE, env |-> << <<<<"A">>, <<"1">>>> >>] }

\* Object.entries(env).map(([k, v]) => `${k}=${v}`)
envToArray(env) == [i \in 1..Len(env) |-> env[i][1] \o <<"=">> \o env[i][2]]

buildExecRequest(s) ==
    [command |-> s.command, tty |-> s.tty, env |-> envToArray(s.env)]

\* result.timed_out ? 124 : (result.exit_code ?? 0)
\* ExitCodeOf preferring the exit_code field: result.exit_code ?? (timed_out ? 124 : 0).
ExitCodeOf_ExitCodeFirst(t) ==
    IF "exit_code" \in t.keys /\ t.exit_code # <<>> THEN t.exit_code[1]
    ELSE IF t.timed_out THEN 124
    ELSE 0

ExitCodeOf(t) ==
    IF t.timed_out THEN 124
    ELSE IF "exit_code" \in t.keys /\ t.exit_code # <<>> THEN t.exit_code[1]
    ELSE 0

\* CommandOnMessage reporting a text that is not JSON as an error.
CommandOnMessage_ParseFatal(s, c, t) ==
    IF ~t.json THEN EmitError(s, c)
    ELSE IF "exit_code" \in t.keys \/ "timed_out" \in t.keys
    THEN LET code == ExitCodeOf(t) IN
         Emit([s EXCEPT !._exitCode = code,
                        !.stdout = End(@),
                        !.stderr = End(@),
                        !.exitPromise = Resolve(@, code)],
              "exit", c, <<code>>)
    ELSE IF "error" \in t.keys
    THEN EmitError(s, c)
    ELSE s

\* CommandOnMessage without its assignment to _exitCode.
CommandOnMessage_NoStore(s, c, t) ==
    IF ~t.json THEN s
    ELSE IF "exit_code" \in t.keys \/ "timed_out" \in t.keys
    THEN LET code == ExitCodeOf(t) IN
         Emit([s EXCEPT !.stdout = End(@),
                        !.stderr = End(@),
                        !.exitPromise = Resolve(@, code)],
              "exit", c, <<code>>)
    ELSE IF "error" \in t.keys
    THEN EmitError(s, c)
    ELSE s

\* CommandOnMessage without its resolveExit(code) call.
CommandOnMessage_NoEmit(s, c, t) ==
    IF ~t.json THEN s
    ELSE IF "exit_code" \in t.keys \/ "timed_out" \in t.keys
    THEN LET code == ExitCodeOf(t) IN
         [s EXCEPT !._exitCode = code, !.stdout = End(@), !.stderr = End(@),
                   !.exitPromise = Resolve(@, code)]
    ELSE IF "error" \in t.keys
    THEN EmitError(s, c)
    ELSE s

CommandOnMessage_NoResolve(s, c, t) ==
    IF ~t.json THEN s
    ELSE IF "exit_code" \in t.keys \/ "timed_out" \in t.keys
    THEN LET code == ExitCodeOf(t) IN
         Emit([s EXCEPT !._exitCode = code, !.stdout = End(@), !.stderr = End(@)],
              "exit", c, <<code>>)
    ELSE IF "error" \in t.keys
    THEN EmitError(s, c)
    ELSE s

\* The 'message' listener of start(), for a text frame received on c.
CommandOnMessage(s, c, t) ==
    IF ~t.json THEN s
    ELSE IF "exit_code" \in t.keys \/ "timed_out" \in t.keys
    THEN LET code == ExitCodeOf(t) IN
         Emit([s EXCEPT !._exitCode = code,
                        !.stdout = End(@),
                        !.stderr = End(@),
                        !.exitPromise = Resolve(@, code)],
              "exit", c, <<code>>)
    ELSE IF "error" \in t.keys
    THEN EmitError(s, c)   \* a throw is caught by the handler's own catch
    ELSE s

\* CommandOnClose with its test inverted: it acts only after a result.
CommandOnClose_Inverted(s) ==
    IF s._exitCode # -1
    THEN [s EXCEPT !.stdout = End(@), !.stderr = End(@),
                   !.exitPromise = Resolve(@, -1)]
    ELSE s

\* CommandOnClose resolving the status of a successful run.
CommandOnClose_Zero(s) ==
    IF s._exitCode = -1
    THEN [s EXCEPT !.stdout = End(@), !.stderr = End(@),
                   !.exitPromise = Resolve(@, 0)]
    ELSE s

\* The 'close' listener of start().
CommandOnClose(s) ==
    IF s._exitCode = -1
    THEN [s EXCEPT !.stdout = End(@), !.stderr = End(@),
                   !.exitPromise = Resolve(@, -1)]
    ELSE s

CommandOnStdout(s, payload) == [s EXCEPT !.stdout = Write(@, payload)]

CommandOnStderr(s, payload) == [s EXCEPT !.stderr = Write(@, payload)]

\* The 'error' listener of start(): re-emits outside any try block.
CommandOnError(s, c) == EmitError(s, c)

\* resize(_cols, _rows) of VmCommand: an empty body. What it leaves of the
\* session and of the connections.
CommandResized(s, conns, cols, rows) == [session |-> s, conns |-> conns]

\* wait(): the exit promise itself; exitCode(): the field.
wait(s) == s.exitPromise

exitCode(s) == s._exitCode

\* ---------------------------------------------------------------- VmConsole

\* The env option of a console: pairs <<key, value>> in iteration order.
ConsoleEnvs ==
    { <<>>,
      << <<<<"b">>, <<>>>>, <<<<"A">>, <<"i", "'", "s">>>> >> }

\* Values of an env pair: validateEnvVars accepts every string of at most
\* MAX_ENV_VALUE_LEN characters. Here every string of at most MaxValueLen
\* characters over EnvAlphabet, and "it's ok".
MaxValueLen == 3

EnvAlphabet == { "i", "'", "\\", " " }

EnvValues ==
    UNION { [1..n -> EnvAlphabet] : n \in 0..MaxValueLen }
    \cup { <<"i", "t", "'", "s", " ", "o", "k">> }

\* Date.now().toString(16) at the time injectEnvVars runs.
Timestamps == { <<"1", "9", "a">> }

\* Buffer.from(string) and buffer.toString() over the characters of the model.
CharCode ==
    [ ch \in { " ", "e", "x", "p", "o", "r", "t", "=", "'", "\\", "c", "h", "_",
               "N", "O", "I", "D", "E", "V", "S", "Y", "C", "A", "i", "s", "1",
               "9", "a", "b", "k", "\r" } |->
        CASE ch = " " -> 32 [] ch = "e" -> 101 [] ch = "x" -> 120 [] ch = "p" -> 112
          [] ch = "o" -> 111 [] ch = "r" -> 114 [] ch = "t" -> 116 [] ch = "=" -> 61
          [] ch = "'" -> 39 [] ch = "\\" -> 92 [] ch = "c" -> 99 [] ch = "h" -> 104
          [] ch = "_" -> 95 [] ch = "N" -> 78 [] ch = "O" -> 79 [] ch = "I" -> 73
          [] ch = "D" -> 68 [] ch = "E" -> 69 [] ch = "V" -> 86 [] ch = "S" -> 83
          [] ch = "Y" -> 89 [] ch = "C" -> 67 [] ch = "A" -> 65 [] ch = "i" -> 105
          [] ch = "s" -> 115 [] ch = "1" -> 49 [] ch = "9" -> 57 [] ch = "a" -> 97
          [] ch = "b" -> 98 [] ch = "k" -> 107 [] ch = "\r" -> 13 ]

BufferFrom(str) == [i \in 1..Len(str) |-> CharCode[str[i]]]

toString(bytes) ==
    [i \in 1..Len(bytes) |->
        IF \E ch \in DOMAIN CharCode : CharCode[ch] = bytes[i]
        THEN CHOOSE ch \in DOMAIN CharCode : CharCode[ch] = bytes[i]
        ELSE "?"]

\* buf.includes(marker)
includes(buf, marker) ==
    \E i \in 0..(Len(buf) - Len(marker)) :
        \A j \in 1..Len(marker) : buf[i + j] = marker[j]

\* escapeQuotes escaping a quote with a backslash only: value.replace(/'/g, "\\'").
RECURSIVE escapeQuotes_Backslash(_)
escapeQuotes_Backslash(value) ==
    IF value = <<>> THEN <<>>
    ELSE (IF Head(value) = "'" THEN <<"\\", "'">> ELSE <<Head(value)>>)
         \o escapeQuotes_Backslash(Tail(value))

\* value.replace(/'/g, "'\\''")
RECURSIVE escapeQuotes(_)
escapeQuotes(value) ==
    IF value = <<>> THEN <<>>
    ELSE (IF Head(value) = "'" THEN <<"'", "\\", "'", "'">> ELSE <<Head(value)>>)
         \o escapeQuotes(Tail(value))

\* ` export ${key}='${escaped}'\r`
exportLine(key, value) ==
    <<" ", "e", "x", "p", "o", "r", "t", " ">> \o key \o <<"=", "'">>
    \o escapeQuotes(value) \o <<"'", "\r">>

\* `__NOID_ENV_SYNC_${Date.now().toString(16)}__`
markerOf(timestamp) ==
    <<"_", "_", "N", "O", "I", "D", "_", "E", "N", "V", "_", "S", "Y", "N", "C", "_">>
    \o timestamp \o <<"_", "_">>

\* ` echo ${marker}\r`
echoLine(marker) == <<" ", "e", "c", "h", "o", " ">> \o marker \o <<"\r">>

\* Buffer.alloc(1 + data.length); frame[0] = tag; data.copy(frame, 1): the
\* frame both senders of the console build, with the tag StreamID.Stdin.
encodeFrame(tag, data) == <<tag>> \o data

\* The frame of sendRawStdin and of the stdin 'data' handler.
stdinFrame(data) == <<Stdin>> \o data

\* sendRawStdin(data), on the connection this.ws names.
sendRawStdin(cn, data) == send(cn, stdinFrame(data))

\* The sends of injectEnvVars: one export line per pair, then the echo line.
RECURSIVE sendExports(_, _)
sendExports(cn, env) ==
    IF env = <<>> THEN cn
    ELSE sendExports(sendRawStdin(cn, BufferFrom(exportLine(Head(env)[1], Head(env)[2]))),
                     Tail(env))

\* Chunks the caller writes to stdin (no bytes, "a", "b\r").
StdinChunks == { <<>>, <<97>>, <<98, 13>> }

\* StdinOnData sending the chunk without the channel byte.
StdinOnData_NoTag(cn, chunk) == send(cn, chunk)

\* The 'data' handler of the stdin PassThrough, for the chunk a write hands
\* it: if (this.ws) this.ws.send([StreamID.Stdin, ...chunk]).
StdinOnData(cn, chunk) == send(cn, stdinFrame(chunk))

\* The 'stdout' listener of start().
ConsoleOnStdout(s, payload) == [s EXCEPT !.stdout = Write(@, payload)]

\* ConsoleOnClose without ending stdout.
ConsoleOnClose_NoEnd(s, c) == Emit(s, "close", c, <<>>)

\* The 'close' listener of start().
ConsoleOnClose(s, c) == Emit([s EXCEPT !.stdout = End(@)], "close", c, <<>>)

\* The 'error' listener of start().
ConsoleOnError(s, c) == EmitError(s, c)

\* ConsoleResized sending a Resize frame [0x04, cols, rows] on this.ws.
ConsoleResized_Sends(s, conns, cols, rows) ==
    [session |-> s,
     conns |-> IF s.ws = 0 THEN conns
               ELSE [conns EXCEPT ![s.ws] = send(@, <<Resize, cols, rows>>)]]

\* resize(_cols, _rows) of VmConsole: an empty body.
ConsoleResized(s, conns, cols, rows) == [session |-> s, conns |-> conns]

\* Terminal sizes the caller passes to resize().
Dims == { <<80, 24>>, <<0, 0>> }

\* ------------------------------------------------------------ the server

\* The shell's echo of the marker, whole or cut in two frames.
MarkerEchoes ==
    UNION { { BufferFrom(markerOf(ts)),
              SubSeq(BufferFrom(markerOf(ts)), 1, 8),
              SubSeq(BufferFrom(markerOf(ts)), 9, Len(markerOf(ts))) } : ts \in Timestamps }

\* Binary frames the server sends in the model (payloads "a", "b", the echoes).
ServerBinaries ==
    { <<>>, <<Stdout, 97>>, <<Stderr, 98>>, <<Stdout>>, <<Stdin, 97>>, <<Resize, 97>>,
      <<9, 97>> }
    \cup { <<Stdout>> \o m : m \in MarkerEchoes }

ServerFrames ==
    { BinaryFrame(b) : b \in ServerBinaries } \cup { TextFrame(t) : t \in ServerTexts }

\* ------------------------------------------------------------------- state

NewCommand(in) ==
    [ command |-> in.command, tty |-> in.tty, env |-> in.env,
      ws |-> 0,                    \* this.ws; 0: undefined
      _exitCode |-> -1,
      exitPromise |-> Unresolved,
      stdout |-> NewStream,
      stderr |-> NewStream,
      events |-> <<>>,             \* the emit() calls of the session, in order
      errListener |-> in.errListener,  \* the caller registered an 'error' listener
      starts |-> 0 ]               \* start() calls

NewConsole(env) ==
    [ env |-> env,
      ws |-> 0,
      stdout |-> NewStream,
      events |-> <<>>,
      errListener |-> TRUE,
      starts |-> 0 ]

\* What has crossed the wire: the number of frames received and the last of
\* them with the connection it arrived on, the chunks written to stdin while
\* the console's connection was open, the number of those written while it
\* was not, the number of resize() calls made, the last call of Vm.spawn or
\* Vm.console with its env and whether it threw NoidValidationError.
NoTraffic ==
    [recvd |-> 0, last |-> [conn |-> 0, frame |-> BinaryFrame(<<>>)],
     writes |-> <<>>, dropped |-> 0, resizes |-> 0,
     call |-> [kind |-> "none", env |-> <<>>, threw |-> FALSE]]

\* The session the caller is not going to use, built without options.
PlainCommand ==
    NewCommand([command |-> <<"ls">>, tty |-> FALSE, env |-> <<>>, errListener |-> TRUE])

PlainConsole == NewConsole(<<>>)

\* The caller has built the session it is going to use with any of the
\* options; the session of the other kind stands built without options.
Init ==
    /\ conn = [c \in Conns |-> NoConn]
    /\ \/ /\ \E in \in CommandInputs, l \in BOOLEAN :
                cmd = NewCommand([command |-> in.command, tty |-> in.tty,
                                  env |-> in.env, errListener |-> l])
          /\ con = PlainConsole
       \/ /\ cmd = PlainCommand
          /\ \E env \in ConsoleEnvs : con = NewConsole(env)
    /\ wire = NoTraffic

\* The states after construction where the console's env is one pair whose
\* value is any of EnvValues.
InitEnv ==
    /\ conn = [c \in Conns |-> NoConn]
    /\ cmd = PlainCommand
    /\ \E value \in EnvValues : con = NewConsole(<< <<<<"A">>, value>> >>)
    /\ wire = NoTraffic

Free == { c \in Conns : conn[c].owner = "none" }

NextFree == CHOOSE c \in Free : \A d \in Free : c <= d

\* No continuation of an await is waiting to run.
Quiescent == \A c \in Conns : conn[c].pc \notin {"resume", "opening"}

\* ------------------------------------------------------- NoidWebSocket events

\* The transport's 'open': startKeepalive(); resolve(), which makes the
\* awaiting start() ready to resume.
OnOpen(cn) ==
    [startKeepalive(cn) EXCEPT !.connectPromise = "resolved", !.pc = "resume"]

\* OnError retrying a failed handshake with a new transport.
OnError_Retry(cn) ==
    IF cn.connectPromise = "pending" /\ cn.attempts = 1
    THEN [cn EXCEPT !.readyState = "CONNECTING", !.attempts = @ + 1]
    ELSE IF cn.connectPromise = "pending"
    THEN [cn EXCEPT !.connectPromise = "rejected", !.pc = "rejected"]
    ELSE cn

\* The transport's 'error': reject(new NoidConnectionError(...)), which only
\* a pending connect() promise takes; the awaiting start() then rejects.
\* Nothing is emitted to the listeners of the NoidWebSocket.
OnError(cn) ==
    IF cn.connectPromise = "pending"
    THEN [cn EXCEPT !.connectPromise = "rejected", !.pc = "rejected"]
    ELSE cn

\* OnClose leaving the keepalive timer running.
OnClose_NoStop(cn) == cn

\* The transport's 'close': stopKeepalive(); emit('close').
OnClose(cn) == stopKeepalive(cn)

\* The transport's 'message': what is emitted to the listeners, if anything.
NoEvent == [event |-> "none", payload |-> <<>>, text |-> NoText]

\* OnMessage taking every channel byte but ErrorOutput for Output.
OnMessage_DefaultStdout(f) ==
    IF ~f.isBinary THEN [event |-> "message", payload |-> <<>>, text |-> f.text]
    ELSE IF Len(f.bytes) < 1 THEN NoEvent
    ELSE IF f.bytes[1] = Stderr
         THEN [event |-> "stderr", payload |-> Tail(f.bytes), text |-> NoText]
    ELSE [event |-> "stdout", payload |-> Tail(f.bytes), text |-> NoText]

\* decodeFrame taking the whole frame for the payload: buf.subarray(0).
decodeFrame_WholePayload(buf) == [channel |-> buf[1], payload |-> buf]

\* const channel = buf[0]; const payload = buf.subarray(1), for a frame of at
\* least one byte.
decodeFrame(buf) == [channel |-> buf[1], payload |-> Tail(buf)]

\* OnMessage with the two channel bytes exchanged.
OnMessage_Swapped(f) ==
    IF ~f.isBinary THEN [event |-> "message", payload |-> <<>>, text |-> f.text]
    ELSE IF Len(f.bytes) < 1 THEN NoEvent
    ELSE IF f.bytes[1] = Stderr
         THEN [event |-> "stdout", payload |-> Tail(f.bytes), text |-> NoText]
    ELSE IF f.bytes[1] = Stdout
         THEN [event |-> "stderr", payload |-> Tail(f.bytes), text |-> NoText]
    ELSE NoEvent

OnMessage(f) ==
    IF ~f.isBinary THEN [event |-> "message", payload |-> <<>>, text |-> f.text]
    ELSE IF Len(f.bytes) < 1 THEN NoEvent
    ELSE LET d == decodeFrame(f.bytes) IN
         IF d.channel = Stdout
         THEN [event |-> "stdout", payload |-> d.payload, text |-> NoText]
         ELSE IF d.channel = Stderr
         THEN [event |-> "stderr", payload |-> d.payload, text |-> NoText]
         ELSE NoEvent

\* The listeners start() registered on the command's connection c.
CommandOn(s, c, e) ==
    CASE e.event = "stdout" -> CommandOnStdout(s, e.payload)
      [] e.event = "stderr" -> CommandOnStderr(s, e.payload)
      [] e.event = "message" -> CommandOnMessage(s, c, e.text)
      [] OTHER -> s

\* The listeners start() registered on the console's connection.
ConsoleOn(s, e) ==
    IF e.event = "stdout" THEN ConsoleOnStdout(s, e.payload) ELSE s

\* onData leaving the timer armed when it sees the marker.
onData_KeepsTimer(ck, data, ws) ==
    LET buf == ck.buf \o toString(data) IN
    IF includes(buf, ck.marker)
    THEN [ck EXCEPT !.buf = buf, !.onData = (ws # ck.target),
                    !.pc = IF @ = "sync" THEN "opening" ELSE @]
    ELSE [ck EXCEPT !.buf = buf]

\* onData resolving on the first output it is handed, marker or not.
onData_NoCheck(ck, data, ws) ==
    [ck EXCEPT !.buf = @ \o toString(data), !.timeout = FALSE,
               !.onData = (ws # ck.target),
               !.pc = IF @ = "sync" THEN "opening" ELSE @]

\* onData of injectEnvVars, for the start() that built connection k, when
\* `data` is emitted as 'stdout' on the connection it listens to.
\* clearTimeout; this.ws?.removeListener; resolve().
onData(ck, data, ws) ==
    LET buf == ck.buf \o toString(data) IN
    IF includes(buf, ck.marker)
    THEN [ck EXCEPT !.buf = buf, !.timeout = FALSE, !.onData = (ws # ck.target),
                    !.pc = IF @ = "sync" THEN "opening" ELSE @]
    ELSE [ck EXCEPT !.buf = buf]

\* onTimeout without its resolve(): the timer only removes the listener.
onTimeout_NoResolve(ck, ws) ==
    [ck EXCEPT !.timeout = FALSE, !.onData = @ /\ (ws # ck.target)]

\* The timer of injectEnvVars: this.ws?.removeListener; resolve().
onTimeout(ck, ws) ==
    [ck EXCEPT !.timeout = FALSE, !.onData = @ /\ (ws # ck.target),
               !.pc = IF @ = "sync" THEN "opening" ELSE @]

\* ----------------------------------------------------------------- actions

\* VmCommand.start() up to its await: a new NoidWebSocket c, its listeners,
\* connect().
CommandStart(c) ==
    /\ conn' = [conn EXCEPT ![c] = connect([NoConn EXCEPT !.owner = "cmd", !.pc = "connect"])]
    /\ cmd' = [cmd EXCEPT !.ws = c, !.starts = @ + 1]
    /\ UNCHANGED <<con, wire>>

\* VmConsole.start() up to its await.
ConsoleStart(c) ==
    /\ conn' = [conn EXCEPT ![c] = connect([NoConn EXCEPT !.owner = "con", !.pc = "connect"])]
    /\ con' = [con EXCEPT !.ws = c, !.starts = @ + 1]
    /\ UNCHANGED <<cmd, wire>>

\* The caller starts the command session (the console is the one it does
\* not use).
StartCommand ==
    /\ Quiescent /\ Free # {}
    /\ cmd.starts = 0 /\ con.starts = 0
    /\ con = PlainConsole
    /\ CommandStart(NextFree)

\* The caller starts the console session (the command is the one it does
\* not use).
StartConsole ==
    /\ Quiescent /\ Free # {}
    /\ cmd.starts = 0 /\ con.starts = 0
    /\ cmd = PlainCommand
    /\ ConsoleStart(NextFree)

\* The handshake of c completes.
TransportOpen(c) ==
    /\ Quiescent
    /\ conn[c].readyState = "CONNECTING"
    /\ conn' = [conn EXCEPT ![c] = OnOpen([@ EXCEPT !.readyState = "OPEN", !.opened = TRUE])]
    /\ UNCHANGED <<cmd, con, wire>>

\* CommandResume with the request sent before the await, on a transport that
\* is still CONNECTING: nothing is sent.
CommandResume_SendBeforeOpen(c) ==
    /\ conn[c].owner = "cmd" /\ conn[c].pc = "resume"
    /\ conn' = [conn EXCEPT ![c].pc = "done"]
    /\ cmd' = Emit(cmd, "spawn", c, <<>>)
    /\ UNCHANGED <<con, wire>>

\* VmCommand.start() after `await this.ws.connect()`, for the start() that
\* built c: this.ws.sendText(buildExecRequest()); emit('spawn').
CommandResume(c) ==
    /\ conn[c].owner = "cmd" /\ conn[c].pc = "resume"
    /\ conn' = [conn EXCEPT ![c].pc = "done",
                            ![cmd.ws] = sendText(@, buildExecRequest(cmd))]
    /\ cmd' = Emit(cmd, "spawn", c, <<>>)
    /\ UNCHANGED <<con, wire>>

\* injectEnvVars sending the echo of the marker before the export lines.
injectEnvVars_MarkerFirst(cn, env, timestamp) ==
    sendExports(sendRawStdin(cn, BufferFrom(echoLine(markerOf(timestamp)))), env)

\* injectEnvVars(env) up to its promise, on the connection this.ws names.
injectEnvVars(cn, env, timestamp) ==
    sendRawStdin(sendExports(cn, env), BufferFrom(echoLine(markerOf(timestamp))))

\* ConsoleResume opening the session with a text request, as a command does.
ConsoleResume_Request(c) ==
    /\ conn[c].owner = "con" /\ conn[c].pc = "resume"
    /\ IF Len(con.env) > 0
       THEN \E ts \in Timestamps :
              /\ conn' = [conn EXCEPT ![con.ws] = injectEnvVars(@, con.env, ts),
                                      ![c].pc = "sync",
                                      ![c].marker = markerOf(ts),
                                      ![c].buf = <<>>,
                                      ![c].timeout = TRUE,
                                      ![c].onData = TRUE,
                                      ![c].target = con.ws]
              /\ con' = con
       ELSE /\ conn' = [conn EXCEPT ![c].pc = "done",
                                    ![con.ws] = sendText(@, NoRequest)]
            /\ con' = Emit(con, "open", c, <<>>)
    /\ UNCHANGED <<cmd, wire>>

\* VmConsole.start() after the await, for the start() that built c.
ConsoleResume(c) ==
    /\ conn[c].owner = "con" /\ conn[c].pc = "resume"
    /\ IF Len(con.env) > 0
       THEN \E ts \in Timestamps :
              /\ conn' = [conn EXCEPT ![con.ws] = injectEnvVars(@, con.env, ts),
                                      ![c].pc = "sync",
                                      ![c].marker = markerOf(ts),
                                      ![c].buf = <<>>,
                                      ![c].timeout = TRUE,
                                      ![c].onData = TRUE,
                                      ![c].target = con.ws]
              /\ con' = con
       ELSE /\ conn' = [conn EXCEPT ![c].pc = "done"]
            /\ con' = Emit(con, "open", c, <<>>)
    /\ UNCHANGED <<cmd, wire>>

\* VmConsole.start() after `await this.injectEnvVars(...)`: emit('open').
ConsoleOpen(c) ==
    /\ conn[c].owner = "con" /\ conn[c].pc = "opening"
    /\ conn' = [conn EXCEPT ![c].pc = "done"]
    /\ con' = Emit(con, "open", c, <<>>)
    /\ UNCHANGED <<cmd, wire>>

\* The 3000 ms timer of injectEnvVars fires.
SyncTimeout(c) ==
    /\ Quiescent
    /\ conn[c].timeout
    /\ conn' = [conn EXCEPT ![c] = onTimeout([@ EXCEPT !.elapsed = TRUE], con.ws)]
    /\ UNCHANGED <<cmd, con, wire>>

\* The transport of c fails, during the handshake or after it: it emits
\* 'error' and goes on to close.
TransportError(c) ==
    /\ Quiescent
    /\ conn[c].readyState \in {"CONNECTING", "OPEN"}
    /\ conn' = [conn EXCEPT ![c] = OnError([@ EXCEPT !.readyState = "CLOSING", !.errored = TRUE])]
    /\ UNCHANGED <<cmd, con, wire>>

\* TransportClose with listeners that every session shares.
TransportClose_Shared(c) ==
    /\ Quiescent
    /\ conn[c].readyState \in {"OPEN", "CLOSING"}
    /\ conn' = [conn EXCEPT ![c] = OnClose([@ EXCEPT !.readyState = "CLOSED"])]
    /\ cmd' = CommandOnClose(cmd)
    /\ con' = ConsoleOnClose(con, c)
    /\ UNCHANGED wire

\* The transport of c reports close (after a failure, a close handshake or a
\* close by the server).
TransportClose(c) ==
    /\ Quiescent
    /\ conn[c].readyState \in {"OPEN", "CLOSING"}
    /\ conn' = [conn EXCEPT ![c] = OnClose([@ EXCEPT !.readyState = "CLOSED"])]
    /\ cmd' = IF conn[c].owner = "cmd" THEN CommandOnClose(cmd) ELSE cmd
    /\ con' = IF conn[c].owner = "con" THEN ConsoleOnClose(con, c) ELSE con
    /\ UNCHANGED wire

\* Receive closing the connection on a binary frame of no bytes.
Receive_EmptyFatal(c, f) ==
    /\ Quiescent
    /\ wire.recvd < MaxRecv
    /\ \/ conn[c].readyState = "OPEN"
       \/ conn[c].readyState = "CLOSING" /\ ~conn[c].errored
    /\ LET e == OnMessage(f) IN
       /\ conn' = [k \in Conns |->
                     LET ck == IF k = c THEN [conn[k] EXCEPT !.recvd = @ + 1] ELSE conn[k] IN
                     IF k = c /\ f.isBinary /\ Len(f.bytes) < 1
                     THEN close(ck)
                     ELSE IF e.event = "stdout" /\ ck.onData /\ ck.target = c
                     THEN onData(ck, e.payload, con.ws)
                     ELSE ck]
       /\ cmd' = IF conn[c].owner = "cmd" THEN CommandOn(cmd, c, e) ELSE cmd
       /\ con' = IF conn[c].owner = "con" THEN ConsoleOn(con, e) ELSE con

\* The 'message' handler of c and the listeners it reaches, for the server's
\* frame f.
Receive(c, f) ==
    /\ Quiescent
    /\ wire.recvd < MaxRecv
    /\ \/ conn[c].readyState = "OPEN"
       \/ conn[c].readyState = "CLOSING" /\ ~conn[c].errored
    /\ LET e == OnMessage(f) IN
       /\ conn' = [k \in Conns |->
                     LET ck == IF k = c THEN [conn[k] EXCEPT !.recvd = @ + 1] ELSE conn[k] IN
                     IF e.event = "stdout" /\ ck.onData /\ ck.target = c
                     THEN onData(ck, e.payload, con.ws)
                     ELSE ck]
       /\ cmd' = IF conn[c].owner = "cmd" THEN CommandOn(cmd, c, e) ELSE cmd
       /\ con' = IF conn[c].owner = "con" THEN ConsoleOn(con, e) ELSE con

\* The server's frame f arrives on c.
TransportMessage(c, f) ==
    /\ Receive(c, f)
    /\ wire' = [wire EXCEPT !.recvd = @ + 1]

\* The same, keeping note of the frame.
TransportMessageNoted(c, f) ==
    /\ Receive(c, f)
    /\ wire' = [wire EXCEPT !.recvd = @ + 1, !.last = [conn |-> c, frame |-> f]]

\* The keepalive timer of c, still live, fires.
PingTick(c) ==
    /\ Quiescent
    /\ conn[c].timers > 0 /\ conn[c].pings < MaxPings
    /\ conn' = [conn EXCEPT ![c] = onPingInterval(@)]
    /\ UNCHANGED <<cmd, con, wire>>

\* The caller calls resize(cols, rows) on the command, on the console.
CommandResize(cols, rows) ==
    /\ Quiescent
    /\ wire.resizes < MaxResizes
    /\ LET r == CommandResized(cmd, conn, cols, rows) IN
       cmd' = r.session /\ conn' = r.conns
    /\ wire' = [wire EXCEPT !.resizes = @ + 1]
    /\ UNCHANGED con

ConsoleResize(cols, rows) ==
    /\ Quiescent
    /\ wire.resizes < MaxResizes
    /\ LET r == ConsoleResized(con, conn, cols, rows) IN
       con' = r.session /\ conn' = r.conns
    /\ wire' = [wire EXCEPT !.resizes = @ + 1]
    /\ UNCHANGED cmd

\* VmConsole.close(): this.ws?.close().
ConsoleClose ==
    /\ Quiescent
    /\ con.ws # 0 => conn[con.ws].closeCalls < MaxCloses
    /\ conn' = IF con.ws = 0 THEN conn
               ELSE [conn EXCEPT ![con.ws] = close([@ EXCEPT !.closeCalls = @ + 1])]
    /\ UNCHANGED <<cmd, con, wire>>

\* The caller writes chunk to the console's stdin. The PassThrough hands the
\* chunk to its 'data' handler, except a chunk of no bytes, for which it
\* raises no 'data' event. Of the writes that find this.ws set, those that
\* find its transport open are logged in order and the others are counted;
\* before start() this.ws is undefined and the chunk is dropped.
StdinWrite(chunk) ==
    /\ Quiescent
    /\ con.ws # 0 => Len(wire.writes) + wire.dropped < MaxWrites
    /\ conn' = IF con.ws = 0 \/ chunk = <<>> THEN conn
               ELSE [conn EXCEPT ![con.ws] = StdinOnData(@, chunk)]
    /\ wire' = IF con.ws = 0 THEN wire
               ELSE IF conn[con.ws].readyState = "OPEN"
               THEN [wire EXCEPT !.writes = Append(@, chunk)]
               ELSE [wire EXCEPT !.dropped = @ + 1]
    /\ UNCHANGED <<cmd, con>>

Next ==
    \/ StartCommand
    \/ StartConsole
    \/ \E c \in Conns : TransportOpen(c)
    \/ \E c \in Conns : CommandResume(c)
    \/ \E c \in Conns : ConsoleResume(c)
    \/ \E c \in Conns : ConsoleOpen(c)
    \/ \E c \in Conns : SyncTimeout(c)
    \/ \E c \in Conns : TransportError(c)
    \/ \E c \in Conns : TransportClose(c)
    \/ \E c \in Conns, f \in ServerFrames : TransportMessage(c, f)
    \/ ConsoleClose

Spec == Init /\ [][Next]_vars

\* The same, with the keepalive timers firing.
NextPing ==
    \/ Next
    \/ \E c \in Conns : PingTick(c)

SpecPing == Init /\ [][NextPing]_vars

\* The same, with a caller that resizes the terminal.
NextResize ==
    \/ Next
    \/ \E d \in Dims : CommandResize(d[1], d[2])
    \/ \E d \in Dims : ConsoleResize(d[1], d[2])

SpecResize == Init /\ [][NextResize]_vars

\* The same, keeping note of the last frame received.
NextFrames ==
    \/ StartCommand
    \/ StartConsole
    \/ \E c \in Conns : TransportOpen(c)
    \/ \E c \in Conns : CommandResume(c)
    \/ \E c \in Conns : ConsoleResume(c)
    \/ \E c \in Conns : ConsoleOpen(c)
    \/ \E c \in Conns : SyncTimeout(c)
    \/ \E c \in Conns : TransportError(c)
    \/ \E c \in Conns : TransportClose(c)
    \/ \E c \in Conns, f \in ServerFrames : TransportMessageNoted(c, f)
    \/ ConsoleClose

SpecFrames == Init /\ [][NextFrames]_vars

\* A command and a console used side by side: the caller starts each of
\* them once, in either order, on a connection of its own.
InitPair ==
    /\ conn = [c \in Conns |-> NoConn]
    /\ cmd = PlainCommand
    /\ \E env \in ConsoleEnvs : con = NewConsole(env)
    /\ wire = NoTraffic

StartCommandPair ==
    /\ Quiescent /\ Free # {}
    /\ cmd.starts = 0
    /\ CommandStart(NextFree)

StartConsolePair ==
    /\ Quiescent /\ Free # {}
    /\ con.starts = 0
    /\ ConsoleStart(NextFree)

\* What the server sends and the caller writes while the two run: output
\* "a", error output "b", the echo of the marker, the result with status 0;
\* the chunk "a".
PairFrames ==
    { BinaryFrame(<<Stdout, 97>>), BinaryFrame(<<Stderr, 98>>), TextFrame(ResultText(<<0>>)) }
    \cup { BinaryFrame(<<Stdout>> \o BufferFrom(markerOf(ts))) : ts \in Timestamps }

PairChunks == { <<97>> }

NextPair ==
    \/ StartCommandPair
    \/ StartConsolePair
    \/ \E c \in Conns : TransportOpen(c)
    \/ \E c \in Conns : CommandResume(c)
    \/ \E c \in Conns : ConsoleResume(c)
    \/ \E c \in Conns : ConsoleOpen(c)
    \/ \E c \in Conns : SyncTimeout(c)
    \/ \E c \in Conns : TransportError(c)
    \/ \E c \in Conns : TransportClose(c)
    \/ \E c \in Conns, f \in PairFrames : TransportMessage(c, f)
    \/ ConsoleClose
    \/ \E chunk \in PairChunks : StdinWrite(chunk)

SpecPair == InitPair /\ [][NextPair]_vars

\* ------------------------------------------------- Vm.spawn and Vm.console

MAX_ENV_VARS == 64
MAX_ENV_VALUE_LEN == 32 * 1024

\* A string of `length` UTF-16 code units that takes `bytes` bytes in UTF-8:
\* "x" repeated is one byte a unit, "\u00e9" repeated is two.
Ascii(length) == [length |-> length, bytes |-> length]
Accented(length) == [length |-> length, bytes |-> 2 * length]

EnvValueInputs ==
    { Ascii(0), Ascii(1), Ascii(MAX_ENV_VALUE_LEN), Ascii(MAX_ENV_VALUE_LEN + 1),
      Accented(20000), Accented(MAX_ENV_VALUE_LEN) }

DigitChar == [d \in 0..9 |-> CASE d = 0 -> "0" [] d = 1 -> "1" [] d = 2 -> "2" [] d = 3 -> "3"
                               [] d = 4 -> "4" [] d = 5 -> "5" [] d = 6 -> "6" [] d = 7 -> "7"
                               [] d = 8 -> "8" [] d = 9 -> "9"]

\* The name `VAR_${i}` for i below 100.
VarName(i) == <<"V", "A", "R", "_", DigitChar[i \div 10], DigitChar[i % 10]>>

\* n entries VAR_01 .. VAR_n, all of the same value.
EnvOf(n, value) == [i \in 1..n |-> [key |-> VarName(i), value |-> value]]

EnvNameInputs ==
    { <<"A">>, <<"_", "a", "1">>, <<"1", "B">>, <<"a", " ", "b">>, <<"a", "-", "b">>, <<>> }

\* The env option handed to Vm.spawn and Vm.console.
VmEnvs ==
    { << [key |-> name, value |-> Ascii(1)] >> : name \in EnvNameInputs }
    \cup { << [key |-> <<"A">>, value |-> value] >> : value \in EnvValueInputs }
    \cup { EnvOf(0, Ascii(1)),
           EnvOf(MAX_ENV_VARS, Ascii(MAX_ENV_VALUE_LEN)),
           EnvOf(MAX_ENV_VARS + 1, Ascii(1)),
           EnvOf(2, Ascii(1)) \o << [key |-> <<"1", "B">>, value |-> Ascii(1)] >> }

Letters ==
    { "A", "B", "C", "D", "E", "I", "N", "O", "R", "S", "V", "Y", "a", "b", "c", "e", "h",
      "i", "k", "o", "p", "r", "s", "t", "x" }

Digits == { DigitChar[d] : d \in 0..9 }

\* ENV_NAME_REGEX.test(key): /^[A-Za-z_][A-Za-z0-9_]*$/
ENV_NAME_REGEX(key) ==
    /\ Len(key) >= 1
    /\ key[1] \in Letters \cup {"_"}
    /\ \A i \in 2..Len(key) : key[i] \in Letters \cup Digits \cup {"_"}

\* validateEnvVars(env): throws on the count, then entry by entry on the
\* name or on value.length; the values of the model are strings.
validateEnvVars(env) ==
    IF Len(env) > MAX_ENV_VARS THEN "NoidValidationError"
    ELSE IF \E i \in 1..Len(env) :
              ~ENV_NAME_REGEX(env[i].key) \/ env[i].value.length > MAX_ENV_VALUE_LEN
    THEN "NoidValidationError"
    ELSE "returned"

\* No session object: the caller's variable before Vm.spawn / Vm.console
\* has returned one.
NoSession == [absent |-> TRUE]

InitVm ==
    /\ conn = [c \in Conns |-> NoConn]
    /\ cmd = NoSession
    /\ con = NoSession
    /\ wire = NoTraffic

\* Vm.spawn(command, {env}): if (options?.env) validateEnvVars(options.env);
\* return new VmCommand(this, command, options).
spawn(env) ==
    /\ cmd = NoSession
    /\ LET outcome == validateEnvVars(env) IN
       /\ cmd' = IF outcome = "returned"
                 THEN NewCommand([command |-> <<"ls">>, tty |-> FALSE, env |-> env,
                                  errListener |-> FALSE])
                 ELSE cmd
       /\ wire' = [wire EXCEPT !.call = [kind |-> "spawn", env |-> env,
                                         threw |-> outcome # "returned"]]
    /\ UNCHANGED <<con, conn>>

\* Vm.console({env}): if (options?.env) validateEnvVars(options.env);
\* return new VmConsole(this, options).
console(env) ==
    /\ con = NoSession
    /\ LET outcome == validateEnvVars(env) IN
       /\ con' = IF outcome = "returned" THEN NewConsole(env) ELSE con
       /\ wire' = [wire EXCEPT !.call = [kind |-> "console", env |-> env,
                                         threw |-> outcome # "returned"]]
    /\ UNCHANGED <<cmd, conn>>

NextVm ==
    \/ \E env \in VmEnvs : spawn(env)
    \/ \E env \in VmEnvs : console(env)

SpecVm == InitVm /\ [][NextVm]_vars

\* The console of InitEnv started against a server that sends no frame.
NextEnv ==
    \/ StartConsole
    \/ \E c \in Conns : TransportOpen(c)
    \/ \E c \in Conns : ConsoleResume(c)
    \/ \E c \in Conns : ConsoleOpen(c)
    \/ \E c \in Conns : SyncTimeout(c)
    \/ \E c \in Conns : TransportError(c)
    \/ \E c \in Conns : TransportClose(c)
    \/ ConsoleClose

SpecEnv == InitEnv /\ [][NextEnv]_vars

\* The same, with a caller that writes to the console's stdin.
NextStdin ==
    \/ Next
    \/ \E chunk \in StdinChunks : StdinWrite(chunk)

SpecStdin == Init /\ [][NextStdin]_vars

\* The caller calls start() again on a session, after its previous start()
\* has returned or rejected.
RestartCommand ==
    /\ Quiescent /\ Free # {}
    /\ cmd.starts >= 1 /\ conn[cmd.ws].pc \in {"done", "rejected"}
    /\ CommandStart(NextFree)

RestartConsole ==
    /\ Quiescent /\ Free # {}
    /\ con.starts >= 1 /\ conn[con.ws].pc \in {"done", "rejected"}
    /\ ConsoleStart(NextFree)

NextRestart ==
    \/ Next
    \/ RestartCommand
    \/ RestartConsole

SpecRestart == Init /\ [][NextRestart]_vars

\* Node runs every pending continuation and every due timer; a handshake
\* ends, by 'open' or by 'error'; the transport eventually reports close.
Fairness ==
    \A c \in Conns :
        /\ WF_vars(CommandResume(c))
        /\ WF_vars(ConsoleResume(c))
        /\ WF_vars(ConsoleOpen(c))
        /\ WF_vars(SyncTimeout(c))
        /\ WF_vars(TransportOpen(c) \/ TransportError(c))
        /\ WF_vars(TransportClose(c))

SpecLive == Spec /\ Fairness

\* ------------------------------------------------------------------ claims

CommandConns == { c \in Conns : conn[c].owner = "cmd" }
ConsoleConns == { c \in Conns : conn[c].owner = "con" }

\* The events named `name` that the handlers of connection c emitted on s.
EventsOf(s, name, c) ==
    { i \in 1..Len(s.events) : s.events[i].ev = name /\ s.events[i].conn = c }

EventsNamed(s, name) == { i \in 1..Len(s.events) : s.events[i].ev = name }

\* C1: a started command session sends nothing before its connection is open;
\* once start() has resumed, exactly one frame has been sent on the
\* connection, the text frame of the request {command, tty, env}; no received
\* frame is handled before that send; 'spawn' is emitted once, with the send.
C1_RequestFirst ==
    \A c \in CommandConns :
        /\ conn[c].pc \in {"connect", "resume", "rejected"} =>
              conn[c].sent = <<>> /\ conn[c].recvd = 0 /\ EventsOf(cmd, "spawn", c) = {}
        /\ conn[c].pc = "done" =>
              /\ conn[c].connectPromise = "resolved"
              /\ conn[c].sent = << RequestFrame([command |-> cmd.command, tty |-> cmd.tty,
                                                  env |-> envToArray(cmd.env)]) >>
              /\ Cardinality(EventsOf(cmd, "spawn", c)) = 1
        /\ conn[c].recvd > 0 => Len(conn[c].sent) = 1 /\ ~conn[c].sent[1].isBinary

C1_Witness ==
    \E c \in CommandConns :
        /\ conn[c].pc = "done" /\ conn[c].recvd > 0
        /\ Len(conn[c].sent) = 1 /\ conn[c].sent[1].request.tty
        /\ EventsOf(cmd, "spawn", c) # {}

\* A result frame with timed_out false and the integer exit_code n.
IsResultFrame(f, n) ==
    /\ ~f.isBinary /\ f.text.json
    /\ "exit_code" \in f.text.keys
    /\ ~f.text.timed_out
    /\ f.text.exit_code = <<n>>

\* C2: when a command session whose wait() is still pending handles a result
\* frame with timed_out false and integer exit_code n, wait() resolves to n,
\* exitCode() returns n, 'exit' is emitted with n and stdout and stderr are
\* ended; and what wait() has resolved to never changes afterwards.
C2_ResultResolves ==
    /\ [][\A c \in CommandConns, f \in ServerFrames, n \in ExitCodes :
            (TransportMessage(c, f) /\ IsResultFrame(f, n) /\ wait(cmd) = Unresolved) =>
                /\ wait(cmd') = <<n>>
                /\ exitCode(cmd') = n
                /\ cmd'.events = Append(cmd.events, Event("exit", c, <<n>>))
                /\ cmd'.stdout.ended /\ cmd'.stderr.ended]_vars
    /\ [][wait(cmd) # Unresolved => wait(cmd') = wait(cmd)]_vars

C2_Witness ==
    \E c \in CommandConns :
        /\ conn[c].readyState = "CLOSED"
        /\ wait(cmd) = <<1>> /\ exitCode(cmd) = 1
        /\ cmd.events[Len(cmd.events)] = Event("exit", c, <<1>>)
        /\ cmd.stdout.ended /\ cmd.stderr.ended

\* C3: once the connection of a command session has closed with no result
\* frame handled (no 'exit' emitted), wait() has resolved to -1, exitCode()
\* is -1 and stdout and stderr are ended.
C3_CloseWithoutResult ==
    \A c \in CommandConns :
        (conn[c].readyState = "CLOSED" /\ EventsNamed(cmd, "exit") = {}) =>
            /\ wait(cmd) = <<-1>>
            /\ exitCode(cmd) = -1
            /\ cmd.stdout.ended /\ cmd.stderr.ended

C3_Witness ==
    \E c \in CommandConns :
        /\ conn[c].readyState = "CLOSED" /\ conn[c].pc = "done"
        /\ EventsNamed(cmd, "exit") = {}
        /\ cmd.stdout.data # <<>>
        /\ wait(cmd) = <<-1>>


\* C4: once start() has been called on a command session, wait() eventually
\* resolves, given that the handshake ends and the transport reports close.
C4_WaitResolves == (cmd.starts > 0) ~> (wait(cmd) # Unresolved)

C4_Witness ==
    \E c \in CommandConns :
        /\ conn[c].pc = "rejected" /\ conn[c].readyState = "CLOSED"
        /\ wait(cmd) # Unresolved

\* C5 (as claimed): once a command session has handled an error frame, the
\* error has been delivered to the caller, stdout and stderr are ended,
\* wait() is released, and no exit status is recorded.
C5_ErrorFrameTerminates ==
    EventsNamed(cmd, "error") # {} =>
        /\ \A i \in EventsNamed(cmd, "error") : ~cmd.events[i].thrown
        /\ cmd.stdout.ended /\ cmd.stderr.ended
        /\ wait(cmd) # Unresolved
        /\ exitCode(cmd) = -1

\* C6 (as claimed): 'exit' is emitted at most once per command session.
C6_OneExit == Cardinality(EventsNamed(cmd, "exit")) <= 1

\* A session has ended: wait() of the command has resolved, the console has
\* emitted 'close'.
CommandEnded == wait(cmd) # Unresolved
ConsoleEnded == EventsNamed(con, "close") # {}

\* C7 (as claimed): when a session has ended, each connection it built has
\* been closed by the session (close handshake started, or transport already
\* closing) and its keepalive timer is stopped.
C7_ConnectionReleased ==
    /\ CommandEnded =>
          \A c \in CommandConns :
              ~conn[c].pingInterval /\ conn[c].readyState \in {"CLOSING", "CLOSED"}
    /\ ConsoleEnded =>
          \A c \in ConsoleConns :
              ~conn[c].pingInterval /\ conn[c].readyState \in {"CLOSING", "CLOSED"}

\* The handshake of c failed: the transport emitted 'error' before 'open'.
HandshakeFailed(c) == conn[c].errored /\ ~conn[c].opened

\* The transport of c failed after its handshake had completed.
FaultAfterHandshake(c) == conn[c].errored /\ conn[c].opened

SessionOf(c) == IF conn[c].owner = "cmd" THEN cmd ELSE con

\* C8: when the handshake of a started session fails, start() has rejected,
\* one transport has been constructed, no frame has been sent, and the
\* session has emitted neither 'spawn' nor 'open' for that start().
C8_HandshakeFailure ==
    \A c \in CommandConns \cup ConsoleConns :
        HandshakeFailed(c) =>
            /\ conn[c].pc = "rejected" /\ conn[c].connectPromise = "rejected"
            /\ conn[c].attempts = 1
            /\ conn[c].sent = <<>>
            /\ EventsOf(SessionOf(c), "spawn", c) = {}
            /\ EventsOf(SessionOf(c), "open", c) = {}

C8_Witness ==
    \E c \in ConsoleConns :
        /\ HandshakeFailed(c) /\ conn[c].readyState = "CLOSED"
        /\ Len(con.env) > 0
        /\ conn[c].pc = "rejected"

\* C9 (as claimed): a transport fault after the handshake reaches the caller
\* as an 'error' event of the session.
C9_FaultSurfaced ==
    \A c \in CommandConns \cup ConsoleConns :
        FaultAfterHandshake(c) => EventsOf(SessionOf(c), "error", c) # {}

\* The request frames sent on c.
Requests(c) == { i \in 1..Len(conn[c].sent) : ~conn[c].sent[i].isBinary }

\* C10 (as claimed): a session builds at most one connection, and a command
\* session's request is sent at most once.
C10_OneConnection ==
    /\ Cardinality(CommandConns) <= 1
    /\ Cardinality(ConsoleConns) <= 1
    /\ \A c \in Conns : Cardinality(Requests(c)) <= 1

\* The console was built with a non-empty env.
WithEnv == Len(con.env) > 0

\* The text of the Output payloads the console has received.
OutputText == toString(Concat(con.stdout.data))

\* C11: when a console started with a non-empty env has emitted 'open' (and
\* its start() has returned), the marker occurs in the concatenation of the
\* Output payloads received, or the timer of the synchronization has fired.
C11_OpenAfterSync ==
    \A c \in ConsoleConns :
        (WithEnv /\ (EventsOf(con, "open", c) # {} \/ conn[c].pc = "done")) =>
            \/ includes(OutputText, conn[c].marker)
            \/ conn[c].elapsed

\* 'open' emitted without the timer, the marker received in two frames.
C11_Witness ==
    \E c \in ConsoleConns, ts \in Timestamps :
        /\ WithEnv /\ EventsOf(con, "open", c) # {} /\ ~conn[c].elapsed
        /\ con.stdout.data = << SubSeq(BufferFrom(markerOf(ts)), 1, 8),
                                SubSeq(BufferFrom(markerOf(ts)), 9, Len(markerOf(ts))) >>

\* C12: for a console started with a non-empty env, once the handshake has
\* completed start() eventually emits 'open' and returns, whether or not the
\* marker is ever received; and start() never rejects after the handshake.
C12_SyncNeverHangs ==
    /\ \A c \in Conns :
          (conn[c].owner = "con" /\ WithEnv /\ conn[c].opened)
              ~> (EventsOf(con, "open", c) # {} /\ conn[c].pc = "done")
    /\ [](\A c \in ConsoleConns : conn[c].opened => conn[c].pc # "rejected")

\* 'open' emitted by the timer, the marker never received.
C12_Witness ==
    \E c \in ConsoleConns :
        /\ WithEnv /\ EventsOf(con, "open", c) # {} /\ conn[c].pc = "done"
        /\ conn[c].elapsed
        /\ ~includes(OutputText, conn[c].marker)

\* C13 (as claimed): a console session emits 'open' at most once, and never
\* after it has emitted 'close'.
C13_OpenBeforeClose ==
    /\ Cardinality(EventsNamed(con, "open")) <= 1
    /\ \A i \in EventsNamed(con, "close"), j \in EventsNamed(con, "open") : j < i

\* close() has been called on the started console while this.ws named c.
CloseCalled(c) == conn[c].closeCalls > 0

\* C14 (as claimed): once close() has been called on a started console, the
\* shutdown of its connection is under way or done, whatever state the call
\* found it in, and no 'open' is emitted from then on.
C14_CloseNotLost ==
    /\ [](\A c \in ConsoleConns :
            CloseCalled(c) => conn[c].readyState \in {"CLOSING", "CLOSED"})
    /\ [][\A c \in ConsoleConns :
            CloseCalled(c) => EventsOf(con', "open", c) = EventsOf(con, "open", c)]_vars

\* C15: when the connection of a console session has closed (closed by the
\* server, after a transport failure, or after close()), the session's
\* stdout is ended and the session has emitted 'close' once for it; and the
\* closing step itself does both.
C15_CloseEndsOutput ==
    /\ [](\A c \in ConsoleConns :
            conn[c].readyState = "CLOSED" =>
                /\ con.stdout.ended
                /\ Cardinality(EventsOf(con, "close", c)) = 1)
    /\ [][\A c \in ConsoleConns :
            TransportClose(c) =>
                /\ con'.stdout.ended
                /\ con'.events = Append(con.events, Event("close", c, <<>>))]_vars

\* Closed after close() on an open console that had received output.
C15_Witness ==
    \E c \in ConsoleConns :
        /\ conn[c].readyState = "CLOSED" /\ CloseCalled(c) /\ conn[c].closeFrames = 1
        /\ con.stdout.data # <<>> /\ con.stdout.ended
        /\ con.events[Len(con.events)].ev = "close"

\* C16: on a NoidWebSocket in any state it can reach, send() and sendText()
\* hand exactly their frame to the transport when it is OPEN and change
\* nothing otherwise (before connect(), while connecting, closing, closed);
\* and in every step, frames are only ever added to what a connection has
\* sent while its transport is OPEN: a dropped frame is not delivered later.
C16_SendOnlyWhenOpen ==
    /\ [](\A c \in Conns, d \in StdinChunks :
            LET cn == conn[c]
                r == buildExecRequest(cmd) IN
            IF cn.readyState = "OPEN"
            THEN /\ send(cn, d) = [cn EXCEPT !.sent = Append(@, BinaryFrame(d))]
                 /\ sendText(cn, r) = [cn EXCEPT !.sent = Append(@, RequestFrame(r))]
            ELSE /\ send(cn, d) = cn
                 /\ sendText(cn, r) = cn)
    /\ [][\A c \in Conns :
            conn'[c].sent # conn[c].sent =>
                /\ conn[c].readyState = "OPEN"
                /\ Len(conn'[c].sent) > Len(conn[c].sent)
                /\ SubSeq(conn'[c].sent, 1, Len(conn[c].sent)) = conn[c].sent]_vars

\* Of two chunks written, the one that found the transport not open was
\* dropped; the one written on the open connection is the only frame sent.
C16_Witness ==
    \E c \in ConsoleConns :
        /\ ~WithEnv /\ conn[c].readyState = "CLOSED"
        /\ wire.dropped = 1 /\ Len(wire.writes) = 1
        /\ conn[c].sent = << BinaryFrame(<<Stdin>> \o wire.writes[1]) >>

\* The started console is Closed: it has emitted 'close', or close() has
\* been called on it.
ConsoleClosed ==
    /\ con.ws # 0
    /\ CloseCalled(con.ws) \/ EventsNamed(con, "close") # {}

\* C17 (as claimed): a write to the stdin of a console that is Closed sends
\* no frame.
C17_ClosedWritesDropped ==
    [][\A chunk \in StdinChunks :
          (StdinWrite(chunk) /\ ConsoleClosed) =>
              \A c \in Conns : conn'[c].sent = conn[c].sent]_vars

\* C18: on a NoidWebSocket in any state it can reach, close() called twice
\* leaves what close() called once leaves, and close() on a transport that
\* is not OPEN starts no close handshake and leaves readyState alone; over a
\* run a connection starts at most one close handshake, and a
\* VmConsole.close() after the first, or on a connection that is not open,
\* starts none.
C18_CloseIdempotent ==
    /\ [](\A c \in Conns :
            /\ close(close(conn[c])) = close(conn[c])
            /\ conn[c].readyState # "OPEN" =>
                  /\ close(conn[c]).closeFrames = conn[c].closeFrames
                  /\ close(conn[c]).readyState = conn[c].readyState
            /\ conn[c].closeFrames <= 1)
    /\ [][(ConsoleClose /\ con.ws # 0) =>
            LET before == conn[con.ws]
                after == conn'[con.ws] IN
            /\ (before.closeFrames > 0 \/ before.readyState # "OPEN") =>
                  /\ after.closeFrames = before.closeFrames
                  /\ after.readyState = before.readyState
            /\ after.sent = before.sent]_vars

\* close() called twice on a console that had opened: one close handshake.
C18_Witness ==
    \E c \in ConsoleConns :
        /\ conn[c].opened /\ conn[c].closeCalls = 2
        /\ conn[c].closeFrames = 1
        /\ conn[c].readyState = "CLOSING"

\* The chunks written to stdin while the connection was open, in the order
\* of the writes.
OpenWrites == wire.writes

\* The frames injectEnvVars has sent on c: one per env pair and the echo.
InjectedFrames(c) ==
    IF WithEnv /\ conn[c].pc \in {"sync", "opening", "done"}
    THEN Len(con.env) + 1
    ELSE 0

\* After the frames of the injection, c has sent one frame per chunk of ws,
\* in order: the byte 0x03 followed by the chunk.
SentFor(c, ws) ==
    /\ Len(conn[c].sent) = InjectedFrames(c) + Len(ws)
    /\ \A i \in 1..Len(ws) :
          conn[c].sent[InjectedFrames(c) + i] = BinaryFrame(<<3>> \o ws[i])

\* C19 (as claimed): what a console's connection has sent, after the frames
\* of the environment injection, is one binary frame per chunk written to
\* stdin while the connection was open, in the order of the writes, each
\* the byte 0x03 followed by the chunk.
C19_StdinFrames == \A c \in ConsoleConns : SentFor(c, OpenWrites)

\* The chunks of at least one byte among them.
OpenWritesOfBytes == SelectSeq(OpenWrites, LAMBDA chunk : chunk # <<>>)

\* C19 (amended): one such frame per chunk of at least one byte written
\* while the connection was open, in the order of the writes; a chunk of no
\* bytes sends no frame.
C19_StdinFramesOfBytes == \A c \in ConsoleConns : SentFor(c, OpenWritesOfBytes)

\* Two different chunks written during the synchronization, sent in order.
C19_Witness ==
    \E c \in ConsoleConns :
        /\ WithEnv /\ conn[c].pc = "sync"
        /\ Len(OpenWritesOfBytes) = 2
        /\ OpenWritesOfBytes[1] # OpenWritesOfBytes[2]
        /\ Len(conn[c].sent) = InjectedFrames(c) + 2

\* The channel byte of a frame; 0 for a text frame or a frame of no bytes.
TagOf(f) == IF f.isBinary /\ Len(f.bytes) >= 1 THEN f.bytes[1] ELSE 0

\* What a stream that has not ended holds after a frame: its bytes followed
\* by the payload when the frame carries the tag, its bytes otherwise.
Forwarded(before, after, f, tag) ==
    ~before.ended =>
        Concat(after.data) =
            IF TagOf(f) = tag THEN Concat(before.data) \o Tail(f.bytes)
            ELSE Concat(before.data)

\* C20: each frame received on the connection of a session whose output has
\* not ended leaves stdout with the payload appended, unchanged, when the
\* frame is tagged 0x01 and untouched otherwise; for a command session the
\* same holds of stderr and the tag 0x02; a console has no other sequence.
\* This holds in every state in which a frame arrives, the console's
\* environment synchronization included.
C20_OutputForwarded ==
    [][\A c \in Conns, f \in ServerFrames :
          TransportMessage(c, f) =>
              /\ conn[c].owner = "con" => Forwarded(con.stdout, con'.stdout, f, 1)
              /\ conn[c].owner = "cmd" =>
                    /\ Forwarded(cmd.stdout, cmd'.stdout, f, 1)
                    /\ Forwarded(cmd.stderr, cmd'.stderr, f, 2)]_vars

\* Two different Output payloads received during the synchronization, in
\* order on stdout.
C20_Witness ==
    \E c \in ConsoleConns :
        /\ conn[c].pc = "sync" /\ conn[c].recvd = 2
        /\ Len(con.stdout.data) = 2
        /\ con.stdout.data[1] = <<97>> /\ con.stdout.data[2] # <<97>>

\* The Input frame that carries a line.
LineFrame(line) == BinaryFrame(<<3>> \o BufferFrom(line))

\* C21: a console started with an env of n >= 1 pairs has sent nothing until
\* its start() resumes after the handshake; from then on, and so before
\* 'open', the first n + 1 frames its connection has sent are the export
\* lines of the pairs in the env's order, then the line echoing the marker;
\* every frame after them is of a chunk the caller wrote to stdin; and
\* 'open' is not emitted before they are sent.
C21_InjectionFrames ==
    \A c \in ConsoleConns :
        WithEnv =>
            LET n == Len(con.env) IN
            /\ conn[c].pc \in {"connect", "resume", "rejected"} =>
                  conn[c].sent = <<>> /\ EventsOf(con, "open", c) = {}
            /\ conn[c].pc \in {"sync", "opening", "done"} =>
                  /\ Len(conn[c].sent) = n + 1 + Len(OpenWritesOfBytes)
                  /\ \A i \in 1..n :
                        conn[c].sent[i] = LineFrame(exportLine(con.env[i][1], con.env[i][2]))
                  /\ conn[c].sent[n + 1] = LineFrame(echoLine(conn[c].marker))

\* The frames of env {b: "", A: "i's"} with the marker of time 0x19a, 'open'
\* emitted: " export b=''\r", " export A='i'\''s'\r",
\* " echo __NOID_ENV_SYNC_19a__\r".
C21_Witness ==
    \E c \in ConsoleConns :
        /\ EventsOf(con, "open", c) # {}
        /\ conn[c].sent =
             << BinaryFrame(<<3, 32, 101, 120, 112, 111, 114, 116, 32, 98, 61, 39, 39, 13>>),
                BinaryFrame(<<3, 32, 101, 120, 112, 111, 114, 116, 32, 65, 61, 39, 105, 39, 92,
                              39, 39, 115, 39, 13>>),
                BinaryFrame(<<3, 32, 101, 99, 104, 111, 32, 95, 95, 78, 79, 73, 68, 95, 69, 78,
                              86, 95, 83, 89, 78, 67, 95, 49, 57, 97, 95, 95, 13>>) >>

\* POSIX shell quote removal of one word (XCU 2.2, 2.6.7): a single quote
\* opens a quoted part that runs to the next single quote, its characters
\* literal; outside of one, a backslash makes the next character literal and
\* a blank ends the word. NotAWord stands for a text that is not one word: a
\* quote left open, a trailing backslash, an unquoted blank.
NotAWord == <<"not a word">>

Literal(ch, rest) == IF rest = NotAWord THEN NotAWord ELSE <<ch>> \o rest

RECURSIVE QuoteRemoval(_, _)
QuoteRemoval(word, quoted) ==
    IF word = <<>> THEN (IF quoted THEN NotAWord ELSE <<>>)
    ELSE IF quoted
    THEN IF Head(word) = "'" THEN QuoteRemoval(Tail(word), FALSE)
         ELSE Literal(Head(word), QuoteRemoval(Tail(word), TRUE))
    ELSE IF Head(word) = "'" THEN QuoteRemoval(Tail(word), TRUE)
    ELSE IF Head(word) = "\\"
    THEN IF Tail(word) = <<>> THEN NotAWord
         ELSE Literal(word[2], QuoteRemoval(Tail(Tail(word)), FALSE))
    ELSE IF Head(word) \in {" ", "\r"} THEN NotAWord
    ELSE Literal(Head(word), QuoteRemoval(Tail(word), FALSE))

\* The word after "=" in the export line a sent frame carries: the text of
\* the payload between ` export ${key}=` and the final carriage return.
ValueWord(frame, key) ==
    LET line == toString(Tail(frame.bytes)) IN
    SubSeq(line, Len(key) + 10, Len(line) - 1)

\* The same word with the quote that opens it and the quote that closes it
\* taken off.
Inner(word) == SubSeq(word, 2, Len(word) - 1)

\* The positions of text where a single quote of value ends up when every
\* character of value before it is copied and every quote takes four places.
RECURSIVE QuotesBefore(_, _)
QuotesBefore(value, i) ==
    IF i <= 1 THEN 0
    ELSE QuotesBefore(value, i - 1) + (IF value[i - 1] = "'" THEN 1 ELSE 0)

PlaceOf(value, i) == i + 3 * QuotesBefore(value, i)

\* C22: the export line sent for a pair (key, V) carries after "=" a word
\* that opens and closes with a single quote and holds between them V with
\* every single quote replaced by the four characters '\'' and every other
\* character copied; POSIX quote removal of that word yields V.
C22_QuotingRoundTrip ==
    \A c \in ConsoleConns :
        (WithEnv /\ conn[c].pc \in {"sync", "opening", "done"}) =>
            \A i \in 1..Len(con.env) :
                LET V == con.env[i][2]
                    word == ValueWord(conn[c].sent[i], con.env[i][1])
                    quotes == Cardinality({ j \in 1..Len(V) : V[j] = "'" })
                IN  /\ Len(word) = Len(V) + 3 * quotes + 2
                    /\ word[1] = "'" /\ word[Len(word)] = "'"
                    /\ \A j \in 1..Len(V) :
                          LET at == PlaceOf(V, j) IN
                          IF V[j] = "'"
                          THEN SubSeq(Inner(word), at, at + 3) = <<"'", "\\", "'", "'">>
                          ELSE Inner(word)[at] = V[j]
                    /\ QuoteRemoval(word, FALSE) = V

\* The line of the value it's ok has been sent: " export A='it'\''s ok'\r".
C22_Witness ==
    \E c \in ConsoleConns :
        /\ con.env = << <<<<"A">>, <<"i", "t", "'", "s", " ", "o", "k">>>> >>
        /\ Len(conn[c].sent) >= 1
        /\ toString(Tail(conn[c].sent[1].bytes)) =
             <<" ", "e", "x", "p", "o", "r", "t", " ", "A", "=", "'", "i", "t", "'", "\\", "'",
               "'", "s", " ", "o", "k", "'", "\r">>

\* C23: a console started without env sends no frame of its own (what its
\* connection has sent is the frames of the caller's stdin writes alone),
\* never enters the synchronization (no marker, no listener, no timer), and
\* its start() emits 'open' in the step that follows the handshake; and no
\* console, with env or without, ever sends a text frame.
C23_NoEnvNoFrames ==
    /\ [](\A c \in ConsoleConns :
            /\ \A i \in 1..Len(conn[c].sent) : conn[c].sent[i].isBinary
            /\ ~WithEnv =>
                  /\ Len(conn[c].sent) = Len(OpenWritesOfBytes)
                  /\ conn[c].pc \notin {"sync", "opening"}
                  /\ conn[c].marker = NoConn.marker
                  /\ ~conn[c].onData /\ ~conn[c].timeout /\ ~conn[c].elapsed
                  /\ (EventsOf(con, "open", c) # {}) = (conn[c].pc = "done"))
    /\ [][\A c \in ConsoleConns :
            (~WithEnv /\ conn[c].pc = "resume") =>
                /\ conn'[c].pc = "done"
                /\ conn'[c].sent = <<>>
                /\ Cardinality(EventsOf(con', "open", c)) = 1]_vars

\* A console without env is open with nothing sent and nothing received,
\* no stdin written.
C23_Witness ==
    \E c \in ConsoleConns :
        /\ ~WithEnv /\ conn[c].pc = "done" /\ conn[c].readyState = "OPEN"
        /\ conn[c].sent = <<>> /\ conn[c].recvd = 0
        /\ wire.writes = <<>> /\ wire.dropped = 0
        /\ EventsOf(con, "open", c) # {}

\* The last frame received arrived on c.
LastOn(c) == wire.last.conn = c

\* A result frame whose timed_out is true.
IsTimedOut(f) == ~f.isBinary /\ f.text.json /\ f.text.timed_out

\* C28: when a command session whose wait() is still pending handles a
\* result frame whose timed_out is true, wait() resolves to 124 and
\* exitCode() returns 124, whatever its exit_code (null, absent, an integer);
\* and while such a frame is the last one handled, exitCode() is 124.
C28_TimedOutIs124 ==
    /\ [](\A c \in CommandConns :
            (LastOn(c) /\ IsTimedOut(wire.last.frame)) => exitCode(cmd) = 124)
    /\ [][\A c \in CommandConns, f \in ServerFrames :
            (TransportMessageNoted(c, f) /\ IsTimedOut(f) /\ wait(cmd) = Unresolved) =>
                /\ wait(cmd') = <<124>>
                /\ exitCode(cmd') = 124
                /\ cmd'.events = Append(cmd.events, Event("exit", c, <<124>>))]_vars

\* The first frame of a command was a result with timed_out true and
\* exit_code 1.
C28_Witness ==
    \E c \in CommandConns :
        /\ LastOn(c) /\ conn[c].recvd = 1
        /\ IsTimedOut(wire.last.frame) /\ wire.last.frame.text.exit_code = <<1>>
        /\ wait(cmd) = <<124>> /\ exitCode(cmd) = 124

\* C29 (as claimed): a command session that has handled a result frame
\* ('exit' emitted) never shows the outcome of an abnormal termination, -1
\* from both wait() and exitCode().
C29_AbnormalDistinct ==
    EventsNamed(cmd, "exit") # {} => ~(wait(cmd) = <<-1>> /\ exitCode(cmd) = -1)

\* A result frame: a text frame of JSON with an exit_code or a timed_out field.
IsResult(f) ==
    /\ ~f.isBinary /\ f.text.json
    /\ "exit_code" \in f.text.keys \/ "timed_out" \in f.text.keys

\* C30: exitCode() is -1 in every state of a command session that has
\* handled no result frame (not started, connecting, running, closed without
\* a result); when the session handles a result frame, exitCode() becomes
\* the status of that frame (124 if timed_out, else its integer exit_code,
\* else 0) and keeps it until another result frame is handled.
C30_ExitCodeSentinel ==
    /\ [](EventsNamed(cmd, "exit") = {} => exitCode(cmd) = -1)
    /\ [](\A c \in CommandConns :
            (LastOn(c) /\ IsResult(wire.last.frame)) =>
                LET t == wire.last.frame.text IN
                exitCode(cmd) = IF t.timed_out THEN 124
                                ELSE IF t.exit_code # <<>> THEN t.exit_code[1]
                                ELSE 0)
    /\ [][exitCode(cmd') # exitCode(cmd) =>
            \E c \in CommandConns, f \in ServerFrames :
                TransportMessageNoted(c, f) /\ IsResult(f)]_vars

\* A running command that had received output handled the result frame
\* with exit_code 1 and its connection has closed.
C30_Witness ==
    \E c \in CommandConns :
        /\ LastOn(c) /\ IsResultFrame(wire.last.frame, 1)
        /\ cmd.stdout.data # <<>>
        /\ conn[c].readyState = "CLOSED"
        /\ exitCode(cmd) = 1

\* The connections after the handler of c has run and changed nothing.
Counted(c) == [conn EXCEPT ![c].recvd = @ + 1]

\* The step leaves both sessions and every connection as they were (c has
\* handled one more 'message' event).
Discarded(c) == cmd' = cmd /\ con' = con /\ conn' = Counted(c)

\* C25: a binary frame of no bytes received on a connection, of a command
\* or of a console, in the synchronization or not, changes nothing: no
\* event reaches the session, no error is raised, the connection keeps its
\* state, so that the frames that follow are handled as if it had not
\* been sent.
C25_EmptyFrameDiscarded ==
    [][\A c \in Conns : TransportMessageNoted(c, BinaryFrame(<<>>)) => Discarded(c)]_vars

\* A console in its synchronization has handled a frame of no bytes after a
\* frame of output: it is still open and waiting for the marker.
C25_Witness ==
    \E c \in ConsoleConns :
        /\ LastOn(c) /\ wire.last.frame = BinaryFrame(<<>>)
        /\ conn[c].recvd = 2 /\ con.stdout.data = << <<97>> >>
        /\ conn[c].readyState = "OPEN" /\ conn[c].pc = "sync"
        /\ con.events = <<>>

\* A binary frame of at least one byte whose channel byte is neither Output
\* nor ErrorOutput.
OtherChannel(f) == f.isBinary /\ Len(f.bytes) >= 1 /\ f.bytes[1] \notin {Stdout, Stderr}

\* C26: a received binary frame whose channel byte is not Output or
\* ErrorOutput (Input, Resize, the unknown byte 9) changes nothing: no
\* error, nothing appended to any output sequence, sessions and connections
\* as they were.
C26_OtherChannelNoOp ==
    [][\A c \in Conns, f \in ServerFrames :
          (TransportMessageNoted(c, f) /\ OtherChannel(f)) => Discarded(c)]_vars

\* A command has handled a frame of output and then a frame of channel 9.
C26_Witness ==
    \E c \in CommandConns :
        /\ LastOn(c) /\ wire.last.frame = BinaryFrame(<<9, 97>>)
        /\ conn[c].recvd = 2 /\ conn[c].readyState = "OPEN"
        /\ cmd.stdout.data = << <<97>> >> /\ cmd.stderr.data = <<>>
        /\ EventsNamed(cmd, "error") = {}

\* A text frame that is not JSON, or JSON with none of the fields exit_code,
\* timed_out, error.
NotAResult(f) ==
    /\ ~f.isBinary
    /\ ~f.text.json \/ f.text.keys \cap {"exit_code", "timed_out", "error"} = {}

\* C27: a text frame that is not JSON, or JSON without exit_code, timed_out
\* and error, changes nothing in a command session (status, output
\* sequences, wait(), events) nor in its connection; and in the state it
\* leaves, a result frame is honoured as in any other: a pending wait()
\* resolves to its status.
C27_MalformedTextDiscarded ==
    /\ [][\A c \in CommandConns, f \in ServerFrames :
            (TransportMessageNoted(c, f) /\ NotAResult(f)) => Discarded(c)]_vars
    /\ [](\A c \in CommandConns :
            (LastOn(c) /\ NotAResult(wire.last.frame) /\ wait(cmd) = Unresolved) =>
                LET after == CommandOnMessage(cmd, c, ResultText(<<1>>)) IN
                /\ wait(after) = <<1>> /\ exitCode(after) = 1
                /\ after.stdout.ended /\ after.stderr.ended)

\* A running command has handled a text frame that is not JSON: wait() is
\* pending, the status unknown, the streams open.
C27_Witness ==
    \E c \in CommandConns :
        /\ LastOn(c) /\ wire.last.frame = TextFrame(NoText)
        /\ conn[c].pc = "done" /\ conn[c].readyState = "OPEN"
        /\ wait(cmd) = Unresolved /\ exitCode(cmd) = -1
        /\ ~cmd.stdout.ended /\ ~cmd.stderr.ended /\ EventsNamed(cmd, "error") = {}

\* The connections of the other session: those c does not belong to after
\* the step.
SessionUnchanged(owner) == IF owner = "cmd" THEN cmd' = cmd ELSE con' = con

OtherOwner(owner) == IF owner = "cmd" THEN "con" ELSE "cmd"

\* C24: with a command and a console running side by side on two
\* connections, every step (a frame received, the transport's open, error
\* or close, a continuation of start(), the timer, close(), a write to the
\* console's stdin) that changes a connection leaves every other connection
\* and the other session as they were; a step that changes a session leaves
\* the other session as it was; and each session's events and frames stay
\* with its own connection: the command's connection carries its request
\* alone, the console's the injection and the chunks written.
C24_Isolation ==
    /\ [][/\ \A c \in Conns :
                conn'[c] # conn[c] =>
                    /\ \A k \in Conns \ {c} : conn'[k] = conn[k]
                    /\ SessionUnchanged(OtherOwner(conn'[c].owner))
          /\ cmd' = cmd \/ con' = con]_vars
    /\ [](/\ cmd.ws # 0 /\ con.ws # 0 => cmd.ws # con.ws
          /\ \A i \in 1..Len(cmd.events) : cmd.events[i].conn = cmd.ws
          /\ \A i \in 1..Len(con.events) : con.events[i].conn = con.ws
          /\ \A c \in CommandConns :
                /\ c = cmd.ws
                /\ \A i \in 1..Len(conn[c].sent) : ~conn[c].sent[i].isBinary
                /\ Len(cmd.stdout.data) + Len(cmd.stderr.data) <= conn[c].recvd
          /\ \A c \in ConsoleConns :
                /\ c = con.ws
                /\ SentFor(c, OpenWritesOfBytes)
                /\ Len(con.stdout.data) <= conn[c].recvd)

\* Both started and running: the command has received "a" and nothing
\* else, the console the echo of its marker and has emitted 'open'; the
\* chunk written to the console's stdin went out on the console's
\* connection.
C24_Witness ==
    \E c \in CommandConns, d \in ConsoleConns :
        /\ conn[c].pc = "done" /\ conn[c].readyState = "OPEN"
        /\ conn[d].pc = "done" /\ conn[d].readyState = "OPEN" /\ WithEnv
        /\ cmd.stdout.data = << <<97>> >> /\ cmd.stderr.data = <<>>
        /\ con.stdout.data = << BufferFrom(conn[d].marker) >>
        /\ Len(conn[c].sent) = 1
        /\ Len(conn[d].sent) = Len(con.env) + 2
        /\ EventsOf(con, "open", d) # {} /\ EventsOf(cmd, "spawn", c) # {}

\* C31: a connection has at most one keepalive timer; the timer is started
\* in the step that completes the handshake and in no other; a timer is
\* live only on a connection whose handshake has completed and whose
\* transport has not reported close; once the transport is closed no timer
\* is live and none is started again; and a ping is sent only by a live
\* timer on an open transport.
C31_KeepaliveWhileOpen ==
    /\ [](\A c \in Conns :
            /\ conn[c].timers \in {0, 1}
            /\ conn[c].pingInterval = (conn[c].timers = 1)
            /\ conn[c].timers = 1 => conn[c].opened /\ conn[c].readyState \in {"OPEN", "CLOSING"}
            /\ conn[c].readyState = "CLOSED" => conn[c].timers = 0
            /\ conn[c].pings > 0 => conn[c].opened)
    /\ [][\A c \in Conns :
            /\ (conn[c].readyState = "CONNECTING" /\ conn'[c].readyState = "OPEN") =>
                    conn'[c].timers = 1
            /\ conn'[c].timers > conn[c].timers =>
                    conn[c].readyState = "CONNECTING" /\ conn'[c].readyState = "OPEN"
            /\ conn'[c].pings > conn[c].pings =>
                    /\ conn[c].readyState = "OPEN" /\ conn[c].timers = 1
                    /\ conn'[c].pings = conn[c].pings + 1]_vars

\* A connection that sent two pings while open has closed and its timer is
\* cancelled.
C31_Witness ==
    \E c \in Conns :
        /\ conn[c].pings = 2 /\ conn[c].opened
        /\ conn[c].readyState = "CLOSED"
        /\ conn[c].timers = 0 /\ ~conn[c].pingInterval

\* C32: resize(cols, rows) called on the command or on the console, in any
\* state (not started, connecting, running, in the synchronization,
\* closing, closed), leaves both sessions and every connection as they
\* were: no frame is sent, no event emitted, no error raised.
C32_ResizeNoOp ==
    /\ [](\A d \in Dims :
            /\ CommandResized(cmd, conn, d[1], d[2]) = [session |-> cmd, conns |-> conn]
            /\ ConsoleResized(con, conn, d[1], d[2]) = [session |-> con, conns |-> conn])
    /\ [][wire'.resizes # wire.resizes => cmd' = cmd /\ con' = con /\ conn' = conn]_vars
    /\ [](\A c \in Conns : \A i \in 1..Len(conn[c].sent) :
            TagOf(conn[c].sent[i]) # Resize)

\* resize() was called twice on an open console in its synchronization: its
\* connection has sent the frames of the injection and nothing else.
C32_Witness ==
    \E c \in ConsoleConns :
        /\ wire.resizes = 2
        /\ conn[c].pc = "sync" /\ conn[c].readyState = "OPEN"
        /\ Len(conn[c].sent) = Len(con.env) + 1
        /\ con.events = <<>>

\* Channel bytes (the four of StreamID, and 0, 9, 255) and payloads of at
\* most MaxPayload bytes over {0, 3}.
Channels == {0, Stdout, Stderr, Stdin, Resize, 9, 255}

Payloads == UNION { [1..n -> {0, 3}] : n \in 0..MaxPayload }

\* C33: for every channel byte T and payload P, the empty one included, the
\* receiver's split of the frame T followed by P gives back T and P, and
\* for T Output or ErrorOutput the event handed to the session carries P;
\* the frames a console sends are built that way with the tag Input, and
\* split into Input and the line or the chunk that was written.
C33_CodecRoundTrip ==
    /\ \A T \in Channels, P \in Payloads :
          LET frame == encodeFrame(T, P) IN
          /\ Len(frame) = Len(P) + 1
          /\ decodeFrame(frame) = [channel |-> T, payload |-> P]
          /\ T = Stdout =>
                OnMessage(BinaryFrame(frame)) = [event |-> "stdout", payload |-> P, text |-> NoText]
          /\ T = Stderr =>
                OnMessage(BinaryFrame(frame)) = [event |-> "stderr", payload |-> P, text |-> NoText]
          /\ T = Stdin => stdinFrame(P) = frame
    /\ \A c \in ConsoleConns :
          \A i \in 1..Len(conn[c].sent) :
              LET d == decodeFrame(conn[c].sent[i].bytes) IN
              /\ d.channel = Stdin
              /\ i > InjectedFrames(c) => d.payload = OpenWritesOfBytes[i - InjectedFrames(c)]
              /\ (i <= InjectedFrames(c) /\ i <= Len(con.env)) =>
                    d.payload = BufferFrom(exportLine(con.env[i][1], con.env[i][2]))

\* A console has sent the chunk "b\r" as the frame 0x03 0x62 0x0d, which
\* splits into Input and "b\r".
C33_Witness ==
    \E c \in ConsoleConns :
        /\ Len(conn[c].sent) >= 1
        /\ conn[c].sent[Len(conn[c].sent)].bytes = <<3, 98, 13>>
        /\ decodeFrame(<<3, 98, 13>>) = [channel |-> Stdin, payload |-> <<98, 13>>]
        /\ wire.writes # <<>> /\ wire.writes[Len(wire.writes)] = <<98, 13>>

\* The validation rules as claimed: more than 64 entries, a name that does
\* not match [A-Za-z_][A-Za-z0-9_]*, a value longer than 32 KiB.
Violates(env) ==
    \/ Len(env) > 64
    \/ \E i \in 1..Len(env) : ~ENV_NAME_REGEX(env[i].key)
    \/ \E i \in 1..Len(env) : env[i].value.bytes > 32 * 1024

\* C34 (as claimed): Vm.spawn and Vm.console throw NoidValidationError
\* exactly for an env that violates the rules; a call that threw has
\* created no session and no connection; a session that exists has an env
\* within the rules.
C34_EnvValidated ==
    /\ wire.call.kind # "none" => wire.call.threw = Violates(wire.call.env)
    /\ cmd # NoSession => ~Violates(cmd.env)
    /\ con # NoSession => ~Violates(con.env)
    /\ \A c \in Conns : conn[c] = NoConn

\* An error frame: a text frame of JSON with an error field and neither
\* exit_code nor timed_out.
IsErrorFrame(f) ==
    /\ ~f.isBinary /\ f.text.json
    /\ "error" \in f.text.keys
    /\ f.text.keys \cap {"exit_code", "timed_out"} = {}

\* C35 (as claimed): when the last frame a command session handled is an
\* error frame, the last event of the session is an 'error' that was
\* delivered to the caller, whether or not an 'error' listener is
\* registered.
C35_ErrorFrameReported ==
    \A c \in CommandConns :
        (LastOn(c) /\ IsErrorFrame(wire.last.frame)) =>
            /\ cmd.events # <<>>
            /\ cmd.events[Len(cmd.events)].ev = "error"
            /\ ~cmd.events[Len(cmd.events)].thrown

\* C36 (as claimed): a command session never writes to stdout or stderr
\* after it has ended them, and calls end() on each at most once.
C36_ClosedOnce ==
    /\ ~cmd.stdout.writeAfterEnd /\ ~cmd.stderr.writeAfterEnd
    /\ cmd.stdout.ends <= 1 /\ cmd.stderr.ends <= 1

\* C37 (as claimed): once wait() has resolved to a value, exitCode() returns
\* that value in every later state.
C37_ExitCodeStable == wait(cmd) # Unresolved => exitCode(cmd) = wait(cmd)[1]

\* C38 (as claimed): whenever wait() has resolved to a value, an 'exit' event
\* carrying that value has been emitted by the session.
C38_ExitWithEveryResolution ==
    wait(cmd) # Unresolved =>
        \E i \in EventsNamed(cmd, "exit") : cmd.events[i].arg = wait(cmd)

\* C38 (amended): the step that resolves wait() is either the handling of a
\* result frame, which emits one 'exit' event carrying the resolved value, or
\* the close of the connection with no result handled, which resolves wait()
\* to -1 and emits nothing.
C38_ExitWithResultOnly ==
    [][(wait(cmd) = Unresolved /\ wait(cmd') # Unresolved) =>
          \/ \E c \in CommandConns :
                /\ conn'[c].recvd = conn[c].recvd + 1
                /\ cmd'.events = Append(cmd.events, Event("exit", c, wait(cmd')))
          \/ \E c \in CommandConns :
                /\ conn[c].readyState # "CLOSED" /\ conn'[c].readyState = "CLOSED"
                /\ cmd'.events = cmd.events
                /\ EventsNamed(cmd, "exit") = {}
                /\ wait(cmd') = <<-1>>]_vars

C38_Witness ==
    \E c \in CommandConns :
        /\ conn[c].readyState = "OPEN"
        /\ wait(cmd) = <<0>>
        /\ EventsNamed(cmd, "exit") # {}
        /\ cmd.events[Len(cmd.events)] = Event("exit", c, <<0>>)

\* C39 (as claimed): wait() resolves to 0 only on a result frame whose
\* exit_code is the integer 0 and whose timed_out is false; a result frame
\* with a null or absent exit_code does not resolve it to 0.
C39_ZeroOnlyForZero ==
    [][\A c \in CommandConns, f \in ServerFrames :
          (TransportMessageNoted(c, f) /\ wait(cmd) = Unresolved /\ wait(cmd') = <<0>>) =>
              IsResultFrame(f, 0)]_vars

\* The synchronizer of the start() that built c has completed.
Synced(c) == conn[c].marker # <<>> /\ conn[c].pc \in {"opening", "done"}

C40_WitnessTimer ==
    \E c \in ConsoleConns :
        /\ conn[c].pc = "done" /\ conn[c].elapsed
        /\ con.stdout.data # <<>>

====
